---- MODULE Spec2Model ----
(***************************************************************************)
(* Model of src/inventory_gui.py: the Item batch ledger, the               *)
(* InventoryManager registry (items, categories, action_stack) and the     *)
(* InventoryApp form handlers that validate input before calling it.       *)
(*                                                                         *)
(* Representation:                                                         *)
(*   - a text (entry field, date string) is a sequence of one-character    *)
(*     strings, so that parsing is computed and not assumed;               *)
(*   - a datetime.date is a triple <<year, month, day>>;                   *)
(*   - the items dict is a sequence of item records in insertion order     *)
(*     with pairwise distinct names (a Python dict keeps insertion order); *)
(*   - a price is a number of hundredths;                                  *)
(*   - Item.date_added is written once by the constructor and read only by *)
(*     Item.to_dict; it is left out of the item record and of the file;    *)
(*   - file is the JSON file of export_to_json and import_from_json, held  *)
(*     as the value json.load returns for it: json.dump and json.load      *)
(*     reproduce a dict of strings, numbers and lists of strings entry by  *)
(*     entry and in order.  The texts in it are kept as texts.             *)
(***************************************************************************)
EXTENDS Integers, Sequences, FiniteSets, TLC

VARIABLES items, action_stack, categories, today, file, ret, lastOp

vars == <<items, action_stack, categories, today, file, ret, lastOp>>

(***************************************************************************)
(* Bounds of the model                                                     *)
(***************************************************************************)
\* Most batches held by all ledgers together.
MaxBatches == 3
\* Most records on the undo stack.
MaxStack == 3
\* Largest absolute value of an item's quantity counter.
MaxDrift == 2

\* The days the clock can show, in calendar order.
Days == << <<2024, 2, 29>>, <<2024, 3, 1>> >>

\* Expiry date texts: three that parse (one of them not zero padded), a day
\* that does not exist and a text in another format.
Feb28 == <<"2", "0", "2", "4", "-", "0", "2", "-", "2", "8">>
Feb29 == <<"2", "0", "2", "4", "-", "2", "-", "2", "9">>
Mar01 == <<"2", "0", "2", "4", "-", "0", "3", "-", "0", "1">>
Mar02 == <<"2", "0", "2", "4", "-", "0", "3", "-", "0", "2">>
Feb30 == <<"2", "0", "2", "4", "-", "0", "2", "-", "3", "0">>
Slashed == <<"0", "1", "/", "0", "3", "/", "2", "0", "2", "4">>

(***************************************************************************)
(* Texts and dates                                                         *)
(***************************************************************************)
Digits == {"0", "1", "2", "3", "4", "5", "6", "7", "8", "9"}

DigitVal(c) ==
  CASE c = "0" -> 0 [] c = "1" -> 1 [] c = "2" -> 2 [] c = "3" -> 3
    [] c = "4" -> 4 [] c = "5" -> 5 [] c = "6" -> 6 [] c = "7" -> 7
    [] c = "8" -> 8 [] c = "9" -> 9

Front(s) == SubSeq(s, 1, Len(s) - 1)

Last(s) == s[Len(s)]

AllDigits(f) == Len(f) > 0 /\ \A i \in 1..Len(f) : f[i] \in Digits

RECURSIVE ToNat(_)
ToNat(f) == IF f = <<>> THEN 0 ELSE ToNat(Front(f)) * 10 + DigitVal(Last(f))

\* The fields of a text between the separators sep.
RECURSIVE Split(_, _)
Split(s, sep) ==
  IF s = <<>> THEN << <<>> >>
  ELSE LET r == Split(Tail(s), sep)
       IN  IF Head(s) = sep THEN << <<>> >> \o r
           ELSE << <<Head(s)>> \o Head(r) >> \o Tail(r)

IsLeap(y) == (y % 4 = 0 /\ y % 100 # 0) \/ y % 400 = 0

DaysInMonth(y, m) ==
  IF m = 2 THEN (IF IsLeap(y) THEN 29 ELSE 28)
  ELSE IF m \in {4, 6, 9, 11} THEN 30 ELSE 31

\* Mutant: any day up to 31 is accepted in every month.
strptime_AnyDay(text) ==
  LET f == Split(text, "-")
      wellFormed == /\ Len(f) = 3
                    /\ \A i \in 1..3 : AllDigits(f[i])
                    /\ Len(f[1]) = 4
                    /\ Len(f[2]) \in 1..2
                    /\ Len(f[3]) \in 1..2
      y == ToNat(f[1])
      m == ToNat(f[2])
      d == ToNat(f[3])
  IN  IF wellFormed /\ y >= 1 /\ m \in 1..12 /\ d >= 1 /\ d <= 31
      THEN [ok |-> TRUE, date |-> <<y, m, d>>]
      ELSE [ok |-> FALSE, date |-> <<0, 0, 0>>]

\* datetime.datetime.strptime(text, "%Y-%m-%d").date(): %Y is four digits,
\* %m and %d are one or two digits in range, nothing may follow, and the day
\* must exist in the month.  ok = FALSE stands for the ValueError.
strptime(text) ==
  LET f == Split(text, "-")
      wellFormed == /\ Len(f) = 3
                    /\ \A i \in 1..3 : AllDigits(f[i])
                    /\ Len(f[1]) = 4
                    /\ Len(f[2]) \in 1..2
                    /\ Len(f[3]) \in 1..2
      y == ToNat(f[1])
      m == ToNat(f[2])
      d == ToNat(f[3])
  IN  IF wellFormed /\ y >= 1 /\ m \in 1..12 /\ d >= 1 /\ d <= DaysInMonth(y, m)
      THEN [ok |-> TRUE, date |-> <<y, m, d>>]
      ELSE [ok |-> FALSE, date |-> <<0, 0, 0>>]

\* date.__lt__
DateLT(a, b) ==
  \/ a[1] < b[1]
  \/ a[1] = b[1] /\ a[2] < b[2]
  \/ a[1] = b[1] /\ a[2] = b[2] /\ a[3] < b[3]

DigitChar(n) == <<"0", "1", "2", "3", "4", "5", "6", "7", "8", "9">>[n + 1]

\* The decimal digits of a natural number: str(n), format(n, "d").
RECURSIVE NatText(_)
NatText(n) == IF n < 10 THEN <<DigitChar(n)>> ELSE NatText(n \div 10) \o <<DigitChar(n % 10)>>

\* format(n, "0<w>d") for a natural number: zeros in front up to width w.
RECURSIVE ZeroPadded(_, _)
ZeroPadded(n, w) ==
  LET t == NatText(n)
  IN  IF Len(t) >= w THEN t ELSE <<"0">> \o ZeroPadded(n, w - 1)

\* str(date): date.isoformat(), "%04d-%02d-%02d".
DateText(d) == ZeroPadded(d[1], 4) \o <<"-">> \o ZeroPadded(d[2], 2) \o <<"-">> \o ZeroPadded(d[3], 2)

\* f"{x:.2f}" of the float whose value is h hundredths.  The prices of the
\* model are multiples of a quarter, so the products with a quantity are
\* exact floats and no rounding takes place.
Fixed2(h) ==
  LET a == IF h < 0 THEN -h ELSE h
  IN  (IF h < 0 THEN <<"-">> ELSE <<>>) \o NatText(a \div 100) \o <<".">> \o ZeroPadded(a % 100, 2)

\* ", ".join(texts)
RECURSIVE JoinComma(_)
JoinComma(texts) ==
  IF texts = <<>> THEN <<>>
  ELSE IF Len(texts) = 1 THEN texts[1]
  ELSE texts[1] \o <<",", " ">> \o JoinComma(Tail(texts))

(***************************************************************************)
(* class Item                                                              *)
(***************************************************************************)
Item(name, category, price) ==
  [name |-> name, category |-> category, price |-> price,
   quantity |-> 0, expiry_queue |-> <<>>]

\* Mutant: batch b is placed in front of the batches of its own date.
RECURSIVE InsertByDate_BeforeTies(_, _)
InsertByDate_BeforeTies(q, b) ==
  IF q = <<>> THEN <<b>>
  ELSE IF ~DateLT(Last(q)[1], b[1])
       THEN Append(InsertByDate_BeforeTies(Front(q), b), Last(q))
  ELSE Append(q, b)

\* Places batch b behind every batch whose date is not later than its own.
RECURSIVE InsertByDate(_, _)
InsertByDate(q, b) ==
  IF q = <<>> THEN <<b>>
  ELSE IF DateLT(b[1], Last(q)[1]) THEN Append(InsertByDate(Front(q), b), Last(q))
  ELSE Append(q, b)

\* Mutant: the queue is left in insertion order.
SortedByDate_Unsorted(q) == q

\* sorted(queue, key=lambda x: x[0]): a stable sort on the expiry date.
RECURSIVE SortedByDate(_)
SortedByDate(q) ==
  IF q = <<>> THEN <<>> ELSE InsertByDate(SortedByDate(Front(q)), Last(q))

Item_add_stock(item, quantity, expiry_date) ==
  [item EXCEPT !.quantity = item.quantity + quantity,
               !.expiry_queue =
                 SortedByDate(Append(item.expiry_queue, <<expiry_date, quantity>>))]

\* Mutant: at most one batch is removed in a call.
PopExpired_Once(item, removed, day) ==
  IF item.expiry_queue # <<>> /\ DateLT(Head(item.expiry_queue)[1], day)
  THEN LET qty == Head(item.expiry_queue)[2]
       IN  [item |-> [item EXCEPT !.expiry_queue = Tail(item.expiry_queue),
                                  !.quantity = item.quantity - qty],
            removed |-> removed + qty]
  ELSE [item |-> item, removed |-> removed]

\* The while loop of Item.remove_expired: pops from the left while the first
\* batch expires before day.
RECURSIVE PopExpired(_, _, _)
PopExpired(item, removed, day) ==
  IF item.expiry_queue # <<>> /\ DateLT(Head(item.expiry_queue)[1], day)
  THEN LET qty == Head(item.expiry_queue)[2]
       IN  PopExpired([item EXCEPT !.expiry_queue = Tail(item.expiry_queue),
                                   !.quantity = item.quantity - qty],
                      removed + qty, day)
  ELSE [item |-> item, removed |-> removed]

\* Mutant: a batch that expires on the day itself is removed too.
RECURSIVE PopExpired_Inclusive(_, _, _)
PopExpired_Inclusive(item, removed, day) ==
  IF item.expiry_queue # <<>> /\ ~DateLT(day, Head(item.expiry_queue)[1])
  THEN LET qty == Head(item.expiry_queue)[2]
       IN  PopExpired_Inclusive([item EXCEPT !.expiry_queue = Tail(item.expiry_queue),
                                             !.quantity = item.quantity - qty],
                                removed + qty, day)
  ELSE [item |-> item, removed |-> removed]

Item_remove_expired_Inclusive(item, day) == PopExpired_Inclusive(item, 0, day)

\* day is the value datetime.date.today() returns.
Item_remove_expired(item, day) == PopExpired(item, 0, day)

(***************************************************************************)
(* class InventoryManager                                                  *)
(* Each method is an operator from the manager m = [items, action_stack,   *)
(* categories] and the arguments to [self |-> the manager after the call,  *)
(* ret |-> the value returned].                                            *)
(***************************************************************************)
NamesOf(its) == {its[i].name : i \in 1..Len(its)}

IndexOf(its, name) == CHOOSE i \in 1..Len(its) : its[i].name = name

Get(its, name) == its[IndexOf(its, name)]

\* str.__lt__ on the names of the model, which are single letters.
NameLT(x, y) ==
  LET rank(n) == CASE n = "" -> 0 [] n = "a" -> 1 [] n = "b" -> 2
  IN  rank(x) < rank(y)

\* del its[name]
Del(its, name) ==
  LET k == IndexOf(its, name)
  IN  SubSeq(its, 1, k - 1) \o SubSeq(its, k + 1, Len(its))

\* Mutant: the creation is not recorded on the undo stack.
add_item_NoRecord(m, name, category, price) ==
  IF name \notin NamesOf(m.items)
  THEN [self |-> [items |-> Append(m.items, Item(name, category, price)),
                  categories |-> m.categories \cup {category},
                  action_stack |-> m.action_stack],
        ret |-> TRUE]
  ELSE [self |-> m, ret |-> FALSE]

\* Mutant: the category is recorded before the name is looked up.
add_item_CategoryFirst(m, name, category, price) ==
  IF name \notin NamesOf(m.items)
  THEN [self |-> [items |-> Append(m.items, Item(name, category, price)),
                  categories |-> m.categories \cup {category},
                  action_stack |-> Append(m.action_stack, <<"delete_item", name>>)],
        ret |-> TRUE]
  ELSE [self |-> [m EXCEPT !.categories = m.categories \cup {category}],
        ret |-> FALSE]

add_item(m, name, category, price) ==
  IF name \notin NamesOf(m.items)
  THEN [self |-> [items |-> Append(m.items, Item(name, category, price)),
                  categories |-> m.categories \cup {category},
                  action_stack |-> Append(m.action_stack, <<"delete_item", name>>)],
        ret |-> TRUE]
  ELSE [self |-> m, ret |-> FALSE]

\* quantity is an integer here, so int(quantity) is quantity.
\* Mutant: the record on the undo stack carries the quantity itself.
update_quantity_RecordsQuantity(m, name, quantity, expiry_date) ==
  IF name \in NamesOf(m.items)
  THEN LET p == strptime(expiry_date)
           k == IndexOf(m.items, name)
       IN  IF p.ok
           THEN [self |-> [m EXCEPT
                   !.items[k] = Item_add_stock(m.items[k], quantity, p.date),
                   !.action_stack =
                     Append(m.action_stack, <<"update_quantity", name, quantity>>)],
                 ret |-> TRUE]
           ELSE [self |-> m, ret |-> FALSE]
  ELSE [self |-> m, ret |-> FALSE]

update_quantity(m, name, quantity, expiry_date) ==
  IF name \in NamesOf(m.items)
  THEN LET p == strptime(expiry_date)
           k == IndexOf(m.items, name)
       IN  IF p.ok
           THEN [self |-> [m EXCEPT
                   !.items[k] = Item_add_stock(m.items[k], quantity, p.date),
                   !.action_stack =
                     Append(m.action_stack, <<"update_quantity", name, -quantity>>)],
                 ret |-> TRUE]
           ELSE [self |-> m, ret |-> FALSE]
  ELSE [self |-> m, ret |-> FALSE]

\* Mutant: an item from which nothing was removed gets an entry too.
RECURSIVE RemoveExpiredFrom_All(_, _, _, _)
RemoveExpiredFrom_All(its, k, results, day) ==
  IF k > Len(its) THEN [items |-> its, results |-> results]
  ELSE LET r == Item_remove_expired(its[k], day)
       IN  RemoveExpiredFrom_All([its EXCEPT ![k] = r.item], k + 1,
             Append(results, [removed |-> r.removed, name |-> its[k].name]), day)

\* The loop of InventoryManager.remove_expired over items.values(), from
\* item k on; results holds one entry, the pair of the f-string's two
\* values, per item with a non-zero removed count.
RECURSIVE RemoveExpiredFrom(_, _, _, _)
RemoveExpiredFrom(its, k, results, day) ==
  IF k > Len(its) THEN [items |-> its, results |-> results]
  ELSE LET r == Item_remove_expired(its[k], day)
       IN  RemoveExpiredFrom([its EXCEPT ![k] = r.item], k + 1,
             IF r.removed # 0
             THEN Append(results, [removed |-> r.removed, name |-> its[k].name])
             ELSE results,
             day)

\* Mutant: a removal is recorded on the undo stack.
remove_expired_Recorded(m, day) ==
  LET r == RemoveExpiredFrom(m.items, 1, <<>>, day)
  IN  [self |-> [m EXCEPT
         !.items = r.items,
         !.action_stack = IF r.results = <<>> THEN m.action_stack
                          ELSE Append(m.action_stack, <<"remove_expired", "">>)],
       ret |-> r.results]

remove_expired(m, day) ==
  LET r == RemoveExpiredFrom(m.items, 1, <<>>, day)
  IN  [self |-> [m EXCEPT !.items = r.items], ret |-> r.results]

\* Mutant: nothing is returned when the stack is empty.
undo_last_action_ReturnsNone(m) ==
  IF m.action_stack = <<>>
  THEN [self |-> m, ret |-> <<>>]
  ELSE LET action == Last(m.action_stack)
           popped == [m EXCEPT !.action_stack = Front(m.action_stack)]
       IN  IF action[2] \notin NamesOf(m.items)
           THEN [self |-> popped, ret |-> <<"KeyError", action[2]>>]
           ELSE IF action[1] = "delete_item"
           THEN [self |-> [popped EXCEPT
                   !.categories = m.categories \ {Get(m.items, action[2]).category},
                   !.items = Del(m.items, action[2])],
                 ret |-> <<"Undid: Deleted item", action[2]>>]
           ELSE LET k == IndexOf(m.items, action[2])
                IN  [self |-> [popped EXCEPT
                        !.items[k].quantity = m.items[k].quantity + action[3]],
                      ret |-> <<"Undid: Quantity adjustment for", action[2]>>]

\* Mutant: undoing a creation leaves the category set alone.
undo_last_action_KeepsCategory(m) ==
  IF m.action_stack = <<>>
  THEN [self |-> m, ret |-> <<"No actions to undo.">>]
  ELSE LET action == Last(m.action_stack)
           popped == [m EXCEPT !.action_stack = Front(m.action_stack)]
       IN  IF action[2] \notin NamesOf(m.items)
           THEN [self |-> popped, ret |-> <<"KeyError", action[2]>>]
           ELSE IF action[1] = "delete_item"
           THEN [self |-> [popped EXCEPT !.items = Del(m.items, action[2])],
                 ret |-> <<"Undid: Deleted item", action[2]>>]
           ELSE LET k == IndexOf(m.items, action[2])
                IN  [self |-> [popped EXCEPT
                        !.items[k].quantity = m.items[k].quantity + action[3]],
                      ret |-> <<"Undid: Quantity adjustment for", action[2]>>]

\* Mutant: undoing an addition also takes the batch of that quantity that
\* lies last in the ledger out of it.
undo_last_action_PopsBatch(m) ==
  IF m.action_stack = <<>>
  THEN [self |-> m, ret |-> <<"No actions to undo.">>]
  ELSE LET action == Last(m.action_stack)
           popped == [m EXCEPT !.action_stack = Front(m.action_stack)]
       IN  IF action[2] \notin NamesOf(m.items)
           THEN [self |-> popped, ret |-> <<"KeyError", action[2]>>]
           ELSE IF action[1] = "delete_item"
           THEN [self |-> [popped EXCEPT
                   !.categories = m.categories \ {Get(m.items, action[2]).category},
                   !.items = Del(m.items, action[2])],
                 ret |-> <<"Undid: Deleted item", action[2]>>]
           ELSE LET k == IndexOf(m.items, action[2])
                    q == m.items[k].expiry_queue
                    hits == {j \in 1..Len(q) : q[j][2] = -action[3]}
                    last == IF hits = {} THEN 0
                            ELSE CHOOSE j \in hits : \A h \in hits : h <= j
                IN  [self |-> [popped EXCEPT
                        !.items[k].quantity = m.items[k].quantity + action[3],
                        !.items[k].expiry_queue =
                          SubSeq(q, 1, last - 1) \o SubSeq(q, last + 1, Len(q))],
                      ret |-> <<"Undid: Quantity adjustment for", action[2]>>]

\* The returned message is the pair of its fixed text and the name it
\* quotes.  self.items[action[1]] on a missing name raises KeyError after the
\* record was popped.
undo_last_action(m) ==
  IF m.action_stack = <<>>
  THEN [self |-> m, ret |-> <<"No actions to undo.">>]
  ELSE LET action == Last(m.action_stack)
           popped == [m EXCEPT !.action_stack = Front(m.action_stack)]
       IN  IF action[2] \notin NamesOf(m.items)
           THEN [self |-> popped, ret |-> <<"KeyError", action[2]>>]
           ELSE IF action[1] = "delete_item"
           THEN [self |-> [popped EXCEPT
                   !.categories = m.categories \ {Get(m.items, action[2]).category},
                   !.items = Del(m.items, action[2])],
                 ret |-> <<"Undid: Deleted item", action[2]>>]
           ELSE LET k == IndexOf(m.items, action[2])
                IN  [self |-> [popped EXCEPT
                        !.items[k].quantity = m.items[k].quantity + action[3]],
                      ret |-> <<"Undid: Quantity adjustment for", action[2]>>]

\* Item.to_dict
to_dict(item) ==
  [name |-> item.name,
   category |-> item.category,
   price |-> item.price,
   quantity |-> item.quantity,
   expiry_dates |-> [k \in 1..Len(item.expiry_queue) |-> DateText(item.expiry_queue[k][1])]]

\* No file has been written.
NoFile == [exists |-> FALSE, data |-> <<>>]

\* The file export_to_json writes; the method returns None.
export_to_json(m) ==
  [self |-> m,
   ret |-> <<>>,
   file |-> [exists |-> TRUE, data |-> [k \in 1..Len(m.items) |-> to_dict(m.items[k])]]]

\* [datetime.datetime.strptime(d, "%Y-%m-%d").date() for d in texts]
RECURSIVE ParseDates(_)
ParseDates(texts) ==
  IF texts = <<>> THEN [ok |-> TRUE, dates |-> <<>>]
  ELSE LET p == strptime(Head(texts))
           r == ParseDates(Tail(texts))
       IN  IF p.ok /\ r.ok THEN [ok |-> TRUE, dates |-> <<p.date>> \o r.dates]
           ELSE [ok |-> FALSE, dates |-> <<>>]

\* for date in expiry_dates: self.update_quantity(name, 1, str(date))
RECURSIVE ReplayDates(_, _, _)
ReplayDates(m, name, dates) ==
  IF dates = <<>> THEN m
  ELSE ReplayDates(update_quantity(m, name, 1, DateText(Head(dates))).self, name, Tail(dates))

\* Mutant: an entry whose dates do not parse is passed over.
RECURSIVE ImportEntries_SkipsEntry(_, _, _)
ImportEntries_SkipsEntry(m, data, k) ==
  IF k > Len(data) THEN [self |-> m, ret |-> TRUE]
  ELSE LET e == data[k]
           created == add_item(m, e.name, e.category, e.price).self
           p == ParseDates(e.expiry_dates)
       IN  IF p.ok THEN ImportEntries_SkipsEntry(ReplayDates(created, e.name, p.dates), data, k + 1)
           ELSE ImportEntries_SkipsEntry(created, data, k + 1)

\* The loop of import_from_json over data.items(), from entry k on.  The
\* ValueError of strptime leaves the loop and the method returns False.
RECURSIVE ImportEntries(_, _, _)
ImportEntries(m, data, k) ==
  IF k > Len(data) THEN [self |-> m, ret |-> TRUE]
  ELSE LET e == data[k]
           created == add_item(m, e.name, e.category, e.price).self
           p == ParseDates(e.expiry_dates)
       IN  IF p.ok THEN ImportEntries(ReplayDates(created, e.name, p.dates), data, k + 1)
           ELSE [self |-> created, ret |-> FALSE]

\* open() of a file that does not exist raises, and the method returns
\* False.
import_from_json(m, f) ==
  IF f.exists THEN ImportEntries(m, f.data, 1) ELSE [self |-> m, ret |-> FALSE]

\* Puts item it into the sequence s, which is in name order.
RECURSIVE InsertByName(_, _)
InsertByName(s, it) ==
  IF s = <<>> THEN <<it>>
  ELSE IF NameLT(it.name, Last(s).name) THEN Append(InsertByName(Front(s), it), Last(s))
  ELSE Append(s, it)

\* Mutant: the items are taken in the order of the dict.
SortedByName_Unsorted(its) == its

\* sorted(self.items.items()): the names are pairwise distinct, so the
\* pairs are ordered by name alone.
RECURSIVE SortedByName(_)
SortedByName(its) ==
  IF its = <<>> THEN <<>> ELSE InsertByName(SortedByName(Front(its)), Last(its))

ReportRow(item) ==
  [Name |-> item.name,
   Category |-> item.category,
   Quantity |-> item.quantity,
   Price |-> <<"₹">> \o Fixed2(item.price),
   Value |-> <<"₹">> \o Fixed2(item.quantity * item.price),
   ExpiryDates |-> JoinComma([k \in 1..Len(item.expiry_queue) |->
                               DateText(item.expiry_queue[k][1])])]

\* category_filter is a string; "" stands for the values that are false in
\* `if category_filter`, None and the empty string.
generate_report(m, category_filter) ==
  LET kept(it) == ~(category_filter # "" /\ it.category # category_filter)
      rows == SelectSeq(SortedByName(m.items), kept)
  IN  [self |-> m, ret |-> [k \in 1..Len(rows) |-> ReportRow(rows[k])]]

(***************************************************************************)
(* class InventoryApp: the form handler that adds stock                    *)
(***************************************************************************)
\* int(text) for a text of an optional sign and decimal digits; ok = FALSE
\* stands for the ValueError.
ParseInt(text) ==
  LET signed == text # <<>> /\ Head(text) \in {"+", "-"}
      digits == IF signed THEN Tail(text) ELSE text
  IN  IF AllDigits(digits)
      THEN [ok |-> TRUE,
            val |-> IF signed /\ Head(text) = "-" THEN -ToNat(digits) ELSE ToNat(digits)]
      ELSE [ok |-> FALSE, val |-> 0]

\* Mutant: only negative quantities are refused.
App_update_quantity_ZeroAllowed(m, name, qty, expiry) ==
  IF name = "" \/ qty = <<>> \/ expiry = <<>>
  THEN [self |-> m, ret |-> <<"Name, quantity and expiry date are required.", "error">>]
  ELSE IF name \notin NamesOf(m.items)
  THEN [self |-> m, ret |-> <<"Item not found.", "error">>]
  ELSE IF ~strptime(expiry).ok
  THEN [self |-> m, ret |-> <<"Invalid date format. Use YYYY-MM-DD.", "error">>]
  ELSE IF ~ParseInt(qty).ok \/ ParseInt(qty).val < 0
  THEN [self |-> m, ret |-> <<"Quantity must be a positive integer.", "error">>]
  ELSE LET r == update_quantity(m, name, ParseInt(qty).val, expiry)
       IN  IF r.ret
           THEN [self |-> r.self, ret |-> <<"Added units.", "success">>]
           ELSE [self |-> r.self, ret |-> <<"Failed to update quantity.", "error">>]

\* InventoryApp.update_quantity on the stripped texts of the three entry
\* fields; ret is the message printed and its type.  The refresh of the
\* details and report widgets that follows a success reads the manager only.
App_update_quantity(m, name, qty, expiry) ==
  IF name = "" \/ qty = <<>> \/ expiry = <<>>
  THEN [self |-> m, ret |-> <<"Name, quantity and expiry date are required.", "error">>]
  ELSE IF name \notin NamesOf(m.items)
  THEN [self |-> m, ret |-> <<"Item not found.", "error">>]
  ELSE IF ~strptime(expiry).ok
  THEN [self |-> m, ret |-> <<"Invalid date format. Use YYYY-MM-DD.", "error">>]
  ELSE IF ~ParseInt(qty).ok \/ ParseInt(qty).val <= 0
  THEN [self |-> m, ret |-> <<"Quantity must be a positive integer.", "error">>]
  ELSE LET r == update_quantity(m, name, ParseInt(qty).val, expiry)
       IN  IF r.ret
           THEN [self |-> r.self, ret |-> <<"Added units.", "success">>]
           ELSE [self |-> r.self, ret |-> <<"Failed to update quantity.", "error">>]

(***************************************************************************)
(* The state machine: calls on one InventoryManager                        *)
(***************************************************************************)
Self == [items |-> items, action_stack |-> action_stack, categories |-> categories]

\* The state after a call: the manager it leaves, the value it returned and
\* the record of the call (its name, the call before it, the item named and
\* the quantity text of a form).
Becomes(r, op, name, arg) ==
  /\ items' = r.self.items
  /\ action_stack' = r.self.action_stack
  /\ categories' = r.self.categories
  /\ ret' = r.ret
  /\ lastOp' = [op |-> op, after |-> lastOp.op, name |-> name, arg |-> arg]
  /\ UNCHANGED <<today, file>>

RECURSIVE BatchCount(_)
BatchCount(its) ==
  IF its = <<>> THEN 0 ELSE BatchCount(Front(its)) + Len(Last(its).expiry_queue)

\* The managers the model explores.
InBounds(m) ==
  /\ Len(m.action_stack) <= MaxStack
  /\ BatchCount(m.items) <= MaxBatches
  /\ \A i \in 1..Len(m.items) : m.items[i].quantity \in -MaxDrift..MaxDrift

Init ==
  /\ items = <<>>
  /\ action_stack = <<>>
  /\ categories = {}
  /\ today = Days[1]
  /\ file = NoFile
  /\ ret = <<>>
  /\ lastOp = [op |-> "init", after |-> "init", name |-> "", arg |-> <<>>]

AddItemIn(names, cats, prices) ==
  \E name \in names, category \in cats, price \in prices :
    LET r == add_item(Self, name, category, price)
    IN  InBounds(r.self) /\ Becomes(r, "add_item", name, <<>>)

UpdateQuantityIn(names, quantities, texts) ==
  \E name \in names, quantity \in quantities, expiry_date \in texts :
    LET r == update_quantity(Self, name, quantity, expiry_date)
    IN  InBounds(r.self) /\ Becomes(r, "update_quantity", name, <<>>)

RemoveExpired ==
  LET r == remove_expired(Self, today)
  IN  InBounds(r.self) /\ Becomes(r, "remove_expired", "", <<>>)

UndoLastAction ==
  LET r == undo_last_action(Self)
  IN  InBounds(r.self) /\ Becomes(r, "undo_last_action", "", <<>>)

AppUpdateQuantityIn(names, qtys, texts) ==
  \E name \in names, qty \in qtys, expiry \in texts :
    LET r == App_update_quantity(Self, name, qty, expiry)
    IN  InBounds(r.self) /\ Becomes(r, "App.update_quantity", name, qty)

\* The calendar day changes between two calls.
Tick ==
  /\ \E i \in 1..(Len(Days) - 1) : today = Days[i] /\ today' = Days[i + 1]
  /\ UNCHANGED <<items, action_stack, categories, file, ret, lastOp>>

\* The registry: two items, two categories, two prices; stock of one size
\* for item "a".
AddItem == AddItemIn({"a", "b"}, {"x", "y"}, {200, 550})

UpdateQuantity == UpdateQuantityIn({"a"}, {1}, {Feb29, Feb30})

Next == AddItem \/ UpdateQuantity \/ RemoveExpired \/ UndoLastAction \/ Tick

Spec == Init /\ [][Next]_vars

\* The ledger of one item: batches of two sizes and three dates, and a
\* date text that does not parse.
LedgerAddItem == AddItemIn({"a"}, {"x"}, {250})

LedgerUpdateQuantity ==
  UpdateQuantityIn({"a"}, {1, 2}, {Feb29, Mar01, Mar02, Feb30})

NextLedger ==
  LedgerAddItem \/ LedgerUpdateQuantity \/ RemoveExpired \/ UndoLastAction \/ Tick

SpecLedger == Init /\ [][NextLedger]_vars

\* One item, stocked through the form and by calls on the manager that pass
\* any quantity.
FormsAddItem == AddItemIn({"a"}, {"x"}, {250})

DirectUpdateQuantity == UpdateQuantityIn({"a"}, {-1, 0}, {Feb29})

QtyTexts == {<<"2">>, <<"0">>, <<"-", "1">>, <<"x">>}

\* Every quantity text for the item and a good date; a name left empty, an
\* unknown name and a date that does not parse with a good quantity.
AppUpdateQuantity ==
  \/ AppUpdateQuantityIn({"a"}, QtyTexts, {Mar01})
  \/ AppUpdateQuantityIn({"", "b"}, {<<"2">>}, {Mar01})
  \/ AppUpdateQuantityIn({"a"}, {<<"2">>}, {Feb30})

NextForms ==
  \/ FormsAddItem
  \/ DirectUpdateQuantity
  \/ AppUpdateQuantity
  \/ RemoveExpired
  \/ UndoLastAction
  \/ Tick

SpecForms == Init /\ [][NextForms]_vars

\* Two items created in either order on one day: batches that have expired
\* for both, of either sign for "b", and a batch that has not for "a".
EvictAddItem == AddItemIn({"a", "b"}, {"x"}, {250})

EvictUpdateQuantity ==
  \/ UpdateQuantityIn({"a", "b"}, {1}, {Feb28})
  \/ UpdateQuantityIn({"a"}, {2}, {Mar01})
  \/ UpdateQuantityIn({"b"}, {-1}, {Feb28})

NextEvict == EvictAddItem \/ EvictUpdateQuantity \/ RemoveExpired \/ UndoLastAction

SpecEvict == Init /\ [][NextEvict]_vars

\* Reports of two items in two categories, all items or one category or a
\* category no item has; quantities of either sign.
ReportAddItem == AddItemIn({"a", "b"}, {"x", "y"}, {250})

ReportUpdateQuantity ==
  \/ UpdateQuantityIn({"b"}, {2}, {Mar01})
  \/ UpdateQuantityIn({"a"}, {1}, {Feb28})

Filters == {"", "x", "y", "z"}

GenerateReport ==
  \E category \in Filters :
    Becomes(generate_report(Self, category), "generate_report", category, <<>>)

NextReport ==
  \/ ReportAddItem
  \/ ReportUpdateQuantity
  \/ RemoveExpired
  \/ UndoLastAction
  \/ GenerateReport

SpecReport == Init /\ [][NextReport]_vars

\* InventoryManager(): the application has been started again.
EmptyManager == [items |-> <<>>, action_stack |-> <<>>, categories |-> {}]

ExportToJson ==
  /\ file' = export_to_json(Self).file
  /\ ret' = export_to_json(Self).ret
  /\ lastOp' = [op |-> "export_to_json", after |-> lastOp.op, name |-> "", arg |-> <<>>]
  /\ UNCHANGED <<items, action_stack, categories, today>>

Restart ==
  /\ items' = EmptyManager.items
  /\ action_stack' = EmptyManager.action_stack
  /\ categories' = EmptyManager.categories
  /\ ret' = <<>>
  /\ lastOp' = [op |-> "restart", after |-> lastOp.op, name |-> "", arg |-> <<>>]
  /\ UNCHANGED <<today, file>>

Entry(name, category, price, quantity, expiry_dates) ==
  [name |-> name, category |-> category, price |-> price, quantity |-> quantity,
   expiry_dates |-> expiry_dates]

\* Files that were not written by export_to_json: in each, one entry has a
\* date text that does not parse, in front of or behind an entry that is in
\* order.
BadFirst ==
  [exists |-> TRUE,
   data |-> <<Entry("b", "x", 250, 1, <<Feb30>>), Entry("a", "x", 250, 1, <<Mar01>>)>>]

BadLast ==
  [exists |-> TRUE,
   data |-> <<Entry("a", "x", 250, 1, <<Mar01>>), Entry("b", "x", 250, 2, <<Mar02, Slashed>>)>>]

ForeignFiles == {BadFirst, BadLast}

\* The file chosen in the dialog is the exported one or a foreign one.
ImportFromJson ==
  \E f \in {file} \cup ForeignFiles :
    LET r == import_from_json(Self, f)
    IN  InBounds(r.self) /\ Becomes(r, "import_from_json", "", f.data)

\* Snapshots: two items, batches of one or two units, export, a new start
\* and import.
SnapshotAddItem == AddItemIn({"a", "b"}, {"x"}, {250})

SnapshotUpdateQuantity ==
  \/ UpdateQuantityIn({"a"}, {1, 2}, {Mar01})
  \/ UpdateQuantityIn({"b"}, {1}, {Mar02})

NextSnapshot ==
  \/ SnapshotAddItem
  \/ SnapshotUpdateQuantity
  \/ ExportToJson
  \/ Restart
  \/ ImportFromJson

SpecSnapshot == Init /\ [][NextSnapshot]_vars

(***************************************************************************)
(* Properties                                                              *)
(***************************************************************************)
RECURSIVE SumQty(_)
SumQty(q) == IF q = <<>> THEN 0 ELSE SumQty(Front(q)) + Last(q)[2]

Expired(q, day) == SelectSeq(q, LAMBDA b : DateLT(b[1], day))

Live(q, day) == SelectSeq(q, LAMBDA b : ~DateLT(b[1], day))

DaySet == {Days[i] : i \in 1..Len(Days)}

\* C1: every item's quantity is the sum of the quantities of the batches in
\* its expiry_queue.
C1_QuantityIsBatchSum ==
  \A i \in 1..Len(items) : items[i].quantity = SumQty(items[i].expiry_queue)

\* C2: with only positive quantities added, every item's quantity is >= 0,
\* also after an addition is undone whose batch was already evicted.
C2_QuantityNonNegative ==
  \A i \in 1..Len(items) : items[i].quantity >= 0

\* C4: every item's expiry_queue is sorted ascending by expiry date.
C4_QueueSorted ==
  \A i \in 1..Len(items) :
    \A j, k \in 1..Len(items[i].expiry_queue) :
      j < k => ~DateLT(items[i].expiry_queue[k][1], items[i].expiry_queue[j][1])

\* The batch added last lies in front of a batch with a later date that was
\* added before it.
C4_Witness ==
  /\ lastOp.op = "update_quantity"
  /\ ret = TRUE
  /\ \E i \in 1..Len(items) :
       LET q == items[i].expiry_queue
       IN  /\ Len(q) >= 2
           /\ DateLT(q[1][1], q[2][1])
           /\ Last(action_stack) = <<"update_quantity", items[i].name, -q[1][2]>>
           /\ q[1][2] # q[2][2]

\* C5: on every ledger and every day, Item.remove_expired removes exactly the
\* batches that expire before the day, keeps the others (one that expires on
\* the day included) in their order, and returns the sum of the removed
\* quantities.
C5_EvictExpired ==
  \A i \in 1..Len(items), day \in DaySet :
    LET r == Item_remove_expired(items[i], day)
    IN  /\ r.item.expiry_queue = Live(items[i].expiry_queue, day)
        /\ r.removed = SumQty(Expired(items[i].expiry_queue, day))

\* An eviction has removed stock and has kept a batch that expires today
\* in front of a later one.
C5_Witness ==
  /\ lastOp.op = "remove_expired"
  /\ ret # <<>>
  /\ \E i \in 1..Len(items) :
       /\ Len(items[i].expiry_queue) >= 2
       /\ items[i].expiry_queue[1][1] = today
       /\ DateLT(today, items[i].expiry_queue[2][1])

\* C7: update_quantity for a name that is not an item, or with a text that
\* is not a date, returns False and leaves the manager as it was.
C7_AddStockRejects ==
  \A name \in {"a", "b"}, quantity \in {1, 2},
     text \in {Feb29, Mar01, Mar02, Feb30, Slashed} :
    (name \notin NamesOf(items) \/ text \in {Feb30, Slashed})
      => update_quantity(Self, name, quantity, text) = [self |-> Self, ret |-> FALSE]

\* A call for an existing item that holds stock was rejected, so for its
\* date.
C7_Witness ==
  /\ lastOp.op = "update_quantity"
  /\ ret = FALSE
  /\ lastOp.name \in NamesOf(items)
  /\ Get(items, lastOp.name).expiry_queue # <<>>

\* C3: categories is exactly the set of the categories of the items: no
\* category without an item and no item whose category is missing.
C3_CategoriesAreItemCategories ==
  categories = {items[i].category : i \in 1..Len(items)}

\* C6: add_item with a name that exists returns False and leaves the items,
\* the categories and the undo stack as they were.
C6_AddItemDuplicate ==
  \A name \in NamesOf(items), category \in {"x", "y"}, price \in {200, 550} :
    add_item(Self, name, category, price) = [self |-> Self, ret |-> FALSE]

\* A call with the name of an item that holds stock was rejected; the other
\* category is not in use.
C6_Witness ==
  /\ lastOp.op = "add_item"
  /\ ret = FALSE
  /\ Get(items, lastOp.name).quantity > 0
  /\ categories # {"x", "y"}

\* C9: undo_last_action on an empty undo stack returns the fixed message,
\* raises nothing and leaves the manager as it was.
C9_UndoOnEmptyStack ==
  action_stack = <<>>
    => undo_last_action(Self) = [self |-> Self, ret |-> <<"No actions to undo.">>]

\* An undo was called on the empty stack.
C9_Witness ==
  /\ lastOp.op = "undo_last_action"
  /\ lastOp.after = "undo_last_action"
  /\ ret = <<"No actions to undo.">>
  /\ action_stack = <<>>

\* C10: a successful add_item(X, Y, p) followed at once by undo_last_action
\* leaves X out of items, the undo stack as before the add_item, and Y out
\* of categories when no other item has category Y.
C10_AddItemThenUndo ==
  \A X \in {"a", "b"} \ NamesOf(items), Y \in {"x", "y"}, p \in {200, 550} :
    LET added == add_item(Self, X, Y, p)
        undone == undo_last_action(added.self)
    IN  /\ added.ret = TRUE
        /\ X \notin NamesOf(undone.self.items)
        /\ undone.self.action_stack = action_stack
        /\ (\A i \in 1..Len(undone.self.items) : undone.self.items[i].category # Y)
             => Y \notin undone.self.categories

\* The creation of an item was undone right after it, while another item
\* with stock stays.
C10_Witness ==
  /\ lastOp.op = "undo_last_action"
  /\ lastOp.after = "add_item"
  /\ ret[1] = "Undid: Deleted item"
  /\ Len(items) = 1
  /\ items[1].expiry_queue # <<>>

NonPositive(q) == SelectSeq(q, LAMBDA b : b[2] <= 0)

\* C8 as stated: update_quantity of the manager with a quantity that is zero
\* or negative returns False and changes nothing, and no expiry_queue holds a
\* batch with quantity <= 0.
C8_ManagerRejectsNonPositive ==
  /\ \A name \in NamesOf(items), quantity \in {-1, 0} :
       update_quantity(Self, name, quantity, Feb29) = [self |-> Self, ret |-> FALSE]
  /\ \A i \in 1..Len(items) : NonPositive(items[i].expiry_queue) = <<>>

\* C8 as amended: the form handler InventoryApp.update_quantity reports a
\* quantity text that is zero or negative as an error and leaves the manager
\* as it was, and no call of the handler adds a batch with quantity <= 0 to
\* any expiry_queue.
C8_FormRejectsNonPositive ==
  \A name \in {"a", "b", ""}, expiry \in {Mar01, Feb30} :
    /\ \A qty \in {<<"0">>, <<"-", "1">>} :
         LET r == App_update_quantity(Self, name, qty, expiry)
         IN  r.self = Self /\ r.ret[2] = "error"
    /\ \A qty \in QtyTexts \cup {<<>>} :
         LET r == App_update_quantity(Self, name, qty, expiry)
         IN  \A i \in 1..Len(items) :
               NonPositive(r.self.items[i].expiry_queue)
                 = NonPositive(items[i].expiry_queue)

\* The form has refused a quantity of zero for an existing item and a date
\* that parses.
C8_Witness ==
  /\ lastOp.op = "App.update_quantity"
  /\ lastOp.arg = <<"0">>
  /\ lastOp.name \in NamesOf(items)
  /\ ret = <<"Quantity must be a positive integer.", "error">>

\* C11: undo_last_action with an update_quantity record (name, delta) on top
\* of the stack adds delta to that item's quantity and pops the record; the
\* item's expiry_queue, every other item and the categories stay as they are.
C11_UndoAddStockFrame ==
  (action_stack # <<>> /\ Last(action_stack)[1] = "update_quantity")
    => LET name == Last(action_stack)[2]
           delta == Last(action_stack)[3]
           u == undo_last_action(Self).self
       IN  /\ u.action_stack = Front(action_stack)
           /\ u.categories = categories
           /\ Len(u.items) = Len(items)
           /\ \A i \in 1..Len(items) :
                IF items[i].name = name
                THEN u.items[i] = [items[i] EXCEPT !.quantity = items[i].quantity + delta]
                ELSE u.items[i] = items[i]

\* An addition was undone: the item's batch is still in its ledger, its
\* quantity is lower than the batches' sum, and a second item is there.
C11_Witness ==
  /\ lastOp.op = "undo_last_action"
  /\ ret[1] = "Undid: Quantity adjustment for"
  /\ Len(items) = 2
  /\ Get(items, ret[2]).expiry_queue # <<>>
  /\ Get(items, ret[2]).quantity < SumQty(Get(items, ret[2]).expiry_queue)

\* The positions of the undo stack that hold the creation record of name.
CreatedAt(name) ==
  {j \in 1..Len(action_stack) : action_stack[j] = <<"delete_item", name>>}

\* C19: the names with a delete_item record on the undo stack are the names
\* of the items, one record each; every update_quantity record lies above the
\* delete_item record of its item; undo_last_action finds the item it looks
\* up (no KeyError).
C19_UndoStackWellFormed ==
  /\ \A j \in 1..Len(action_stack) : action_stack[j][2] \in NamesOf(items)
  /\ \A i \in 1..Len(items) : Cardinality(CreatedAt(items[i].name)) = 1
  /\ \A j \in 1..Len(action_stack) :
       action_stack[j][1] = "update_quantity"
         => \E k \in CreatedAt(action_stack[j][2]) : k < j
  /\ undo_last_action(Self).ret[1] # "KeyError"

\* An undo has just found its item, on a stack that still holds an
\* addition above the creation of its item.
C19_Witness ==
  /\ lastOp.op = "undo_last_action"
  /\ ret[1] \in {"Undid: Deleted item", "Undid: Quantity adjustment for"}
  /\ action_stack # <<>>
  /\ Last(action_stack)[1] = "update_quantity"

\* The quantity of the batches of an item that have expired today.
Evicted(item) == SumQty(Expired(item.expiry_queue, today))

AllPositive == \A i \in 1..Len(items) : NonPositive(items[i].expiry_queue) = <<>>

\* C12 as stated (here for ledgers of positive batches only): the result of
\* remove_expired has one entry for exactly the items whose evicted quantity
\* is > 0, with that quantity, in ascending order of the item names.
C12_ResultInNameOrder ==
  AllPositive
    => LET r == remove_expired(Self, today).ret
       IN  /\ {r[k].name : k \in 1..Len(r)}
                = {items[i].name : i \in {j \in 1..Len(items) : Evicted(items[j]) > 0}}
           /\ \A k \in 1..Len(r) : r[k].removed = Evicted(Get(items, r[k].name))
           /\ \A j, k \in 1..Len(r) : j < k => NameLT(r[j].name, r[k].name)

\* C12 as amended: the result of remove_expired has one entry for exactly
\* the items whose evicted quantity is not zero, with that quantity, in the
\* order in which the items were created (their order in the items dict).
C12_ResultInItemOrder ==
  LET r == remove_expired(Self, today).ret
      hit == SelectSeq(items, LAMBDA it : Evicted(it) # 0)
  IN  r = [k \in 1..Len(hit) |-> [removed |-> Evicted(hit[k]), name |-> hit[k].name]]

\* A removal has returned the entry of "b", created first, before the entry
\* of "a".
C12_Witness ==
  /\ lastOp.op = "remove_expired"
  /\ Len(ret) = 2
  /\ ret[1].name = "b"
  /\ ret[2].name = "a"

\* C13: remove_expired leaves the undo stack, the categories and the names
\* of the items as they are; of each item it removes batches from the front
\* of the expiry_queue and lowers the quantity by their sum, nothing else.
C13_EvictionFrame ==
  LET r == remove_expired(Self, today).self
  IN  /\ r.action_stack = action_stack
      /\ r.categories = categories
      /\ Len(r.items) = Len(items)
      /\ \A i \in 1..Len(items) :
           LET q == items[i].expiry_queue
           IN  \E n \in 0..Len(q) :
                 r.items[i] =
                   [items[i] EXCEPT !.expiry_queue = SubSeq(q, n + 1, Len(q)),
                                    !.quantity = items[i].quantity - SumQty(SubSeq(q, 1, n))]

\* A removal has taken stock away while records are on the undo stack and
\* an item keeps a batch.
C13_Witness ==
  /\ lastOp.op = "remove_expired"
  /\ ret # <<>>
  /\ Len(action_stack) >= 2
  /\ \E i \in 1..Len(items) : items[i].expiry_queue # <<>>

\* C20: a second remove_expired right after a first one on the same day
\* returns no entry and changes no expiry_queue and no quantity.
C20_EvictionIdempotent ==
  LET first == remove_expired(Self, today)
      second == remove_expired(first.self, today)
  IN  second.ret = <<>> /\ second.self = first.self

\* Two removals followed each other on the first day and the second one
\* returned nothing; the batch of the addition on top of the undo stack is
\* gone from its ledger, and an item keeps a batch.
C20_Witness ==
  /\ lastOp.op = "remove_expired"
  /\ lastOp.after = "remove_expired"
  /\ today = Days[1]
  /\ ret = <<>>
  /\ \E i \in 1..Len(items) :
       /\ Last(action_stack) = <<"update_quantity", items[i].name, -1>>
       /\ \A j \in 1..Len(items[i].expiry_queue) : items[i].expiry_queue[j][2] # 1
  /\ \E i \in 1..Len(items) : items[i].expiry_queue # <<>>

\* q with batch b put in at position p.
WithBatchAt(q, p, b) == SubSeq(q, 1, p - 1) \o <<b>> \o SubSeq(q, p, Len(q))

\* C17: update_quantity(name, q, text) with the name of an item and a text
\* that is the date d returns True, raises the quantity of the item by q,
\* adds the one batch (d, q) to its expiry_queue and keeps the others, puts
\* the one record ('update_quantity', name, -q) on top of the undo stack,
\* and leaves every other item and the categories as they are.
C17_AddStockEffect ==
  \A n \in 1..Len(items), q \in {1, 2},
     in \in {<<Feb29, <<2024, 2, 29>>>>, <<Mar01, <<2024, 3, 1>>>>} :
    LET r == update_quantity(Self, items[n].name, q, in[1])
        old == items[n].expiry_queue
    IN  /\ r.ret = TRUE
        /\ r.self.action_stack
             = Append(action_stack, <<"update_quantity", items[n].name, -q>>)
        /\ r.self.categories = categories
        /\ Len(r.self.items) = Len(items)
        /\ \A i \in 1..Len(items) : i # n => r.self.items[i] = items[i]
        /\ \E p \in 1..(Len(old) + 1) :
             r.self.items[n] =
               [items[n] EXCEPT !.quantity = items[n].quantity + q,
                                !.expiry_queue = WithBatchAt(old, p, <<in[2], q>>)]

\* An addition to an item that held a batch has succeeded while a second
\* item exists.
C17_Witness ==
  /\ lastOp.op = "update_quantity"
  /\ ret = TRUE
  /\ Len(items) = 2
  /\ Len(Get(items, lastOp.name).expiry_queue) >= 2
  /\ Last(action_stack) = <<"update_quantity", lastOp.name, -1>>

\* The dates of the batches that are added.
BatchDates == {strptime(t).date : t \in {Feb29, Mar01, Mar02}}

\* C18: batches of one expiry date lie in the order of their add_stock
\* calls, whatever is added or removed later: add_stock keeps the batches
\* held in their order and puts the new one behind every batch of its own or
\* an earlier date and in front of every later one, and remove_expired
\* only takes batches from the front.
C18_TiesInInsertionOrder ==
  \A i \in 1..Len(items) :
    LET old == items[i].expiry_queue
    IN  /\ \A q \in {1, 2}, d \in BatchDates :
             \E p \in 1..(Len(old) + 1) :
               /\ Item_add_stock(items[i], q, d).expiry_queue = WithBatchAt(old, p, <<d, q>>)
               /\ \A j \in 1..(p - 1) : ~DateLT(d, old[j][1])
               /\ \A j \in p..Len(old) : DateLT(d, old[j][1])
        /\ \A day \in DaySet :
             \E n \in 0..Len(old) :
               Item_remove_expired(items[i], day).item.expiry_queue
                 = SubSeq(old, n + 1, Len(old))

\* The batch added last lies right behind a batch of its date and of another
\* quantity, in front of a later one.
C18_Witness ==
  /\ lastOp.op = "update_quantity"
  /\ ret = TRUE
  /\ \E i \in 1..Len(items) :
       LET q == items[i].expiry_queue
       IN  /\ Len(q) >= 3
           /\ q[1][1] = q[2][1]
           /\ q[1][2] # q[2][2]
           /\ DateLT(q[2][1], q[3][1])
           /\ q[3][2] = q[1][2]
           /\ Last(action_stack) = <<"update_quantity", items[i].name, -q[2][2]>>

\* The number of hundredths a text "₹[-]<digits>.<two digits>" stands for.
MoneyValue(text) ==
  LET t == Tail(text)
      neg == t # <<>> /\ Head(t) = "-"
      f == Split(IF neg THEN Tail(t) ELSE t, ".")
      a == ToNat(f[1]) * 100 + ToNat(f[2])
  IN  IF neg THEN -a ELSE a

\* C14: for every filter, generate_report returns one row for exactly the
\* items of that category (for every item when the filter is empty), the
\* rows in ascending order of the names, each with the quantity of its item
\* and, as Value, the text of quantity times price.
C14_ReportRows ==
  \A f \in Filters :
    LET rep == generate_report(Self, f).ret
        want == {i \in 1..Len(items) : f = "" \/ items[i].category = f}
    IN  /\ Len(rep) = Cardinality(want)
        /\ {rep[k].Name : k \in 1..Len(rep)} = {items[i].name : i \in want}
        /\ \A j, k \in 1..Len(rep) : j < k => NameLT(rep[j].Name, rep[k].Name)
        /\ \A k \in 1..Len(rep) :
             LET it == Get(items, rep[k].Name)
             IN  /\ rep[k].Quantity = it.quantity
                 /\ Head(rep[k].Value) = "₹"
                 /\ Len(Split(Tail(rep[k].Value), ".")) = 2
                 /\ MoneyValue(rep[k].Value) = it.quantity * it.price

\* A report of category "x" has two rows, for "a" and then for "b", which
\* was created first; "a" has a quantity below zero and a batch.
C14_Witness ==
  /\ lastOp.op = "generate_report"
  /\ lastOp.name = "x"
  /\ Len(items) = 2
  /\ items[1].name = "b"
  /\ Len(ret) = 2
  /\ ret[1].Name = "a"
  /\ ret[1].Quantity < 0
  /\ ret[1].ExpiryDates # <<>>

DatesOf(q) == {q[k][1] : k \in 1..Len(q)}

\* C15: the manager that import_from_json builds, from empty, out of the
\* file export_to_json wrote has every item of the exported manager, with
\* the same quantity and the same set of expiry dates.
C15_RoundTrip ==
  LET back == import_from_json(EmptyManager, export_to_json(Self).file).self
  IN  \A i \in 1..Len(items) :
        /\ items[i].name \in NamesOf(back.items)
        /\ Get(back.items, items[i].name).quantity = items[i].quantity
        /\ DatesOf(Get(back.items, items[i].name).expiry_queue)
             = DatesOf(items[i].expiry_queue)

\* The first entry of data whose dates do not parse; Len(data) + 1 if none.
FirstBad(data) ==
  LET bad == {k \in 1..Len(data) : ~ParseDates(data[k].expiry_dates).ok}
  IN  IF bad = {} THEN Len(data) + 1 ELSE CHOOSE k \in bad : \A j \in bad : k <= j

\* The batches entry e brings: one unit for each of its dates.
UnitBatches(e) == [k \in 1..Len(e.expiry_dates) |-> <<strptime(e.expiry_dates[k]).date, 1>>]

====
